---- MODULE Spec2Model ----
(***************************************************************************)
(* VibeCollector: the Crossref fetcher (crossref_fetcher.py), the          *)
(* Semantic Scholar client and the abstract enrichment pass (app.py), and  *)
(* the ChromaDB indexer (chroma_generator.py).                             *)
(***************************************************************************)
EXTENDS Integers, Sequences, FiniteSets, TLC

(* ------------------------------------------------------------------ *)
(* Bounds of the model                                                 *)
(* ------------------------------------------------------------------ *)

\* self.rate_limit (app.py:26 sets 100), scaled down: K requests ...
rate_limit == 2
\* ... per self.time_window seconds (app.py:27 sets 300), scaled down.
time_window == 3
\* The clock is advanced by the environment up to this value (sleeps may pass it).
MaxTime == 4
\* sleep(t) returns after t seconds or up to this much later.
MaxOversleep == 1
\* Number of get_paper_details calls made on one client on its own (SpecLimiter).
MaxCalls == 5

\* Works in the catalogue of one journal at Crossref.
MaxWorks == 2
\* Items on one page (ROWS_PER_PAGE is the size asked for; the server decides).
MaxRows == 2
\* uuid.uuid4() is modelled by a counter: at most this many ids are handed out.
MaxIds == 3
\* Records in the data directory the indexer is run on (SpecIndex).
MaxBatch == 3

VARIABLES
    now,        \* time.time(), counted from the construction of the client
    requests,   \* SemanticScholarClient.requests: the recorded request times
    calls,      \* history: one entry per HTTP lookup issued by the client
    disk,       \* fetcheddata/: ISSN of each <issn>.json |-> its array of records
    nextId,     \* the ids handed out so far by uuid.uuid4()
    lastFetch,  \* history: the /fetch call that has just returned, if any (with
                \* the file as it was before the call when a request failed,
                \* and the ids of the file it replaced)
    response    \* the JSON body and status of the last HTTP response of the app

limiterVars == <<now, requests, calls>>
fetchVars == <<disk, nextId, lastFetch>>

(* ------------------------------------------------------------------ *)
(* SemanticScholarClient                                               *)
(* ------------------------------------------------------------------ *)

\* The status codes / failures a lookup can end with.
\*   "found": 200 with a non-empty abstract     "empty": 200 without abstract
\*   "other": a non-200 status other than 429/403
\*   "429", "403": rate-limit / forbidden        "neterr": RequestException
Outcomes == {"found", "empty", "other", "429", "403", "neterr"}

Max(a, b) == IF a >= b THEN a ELSE b

\* _wait_if_needed with a sleep that is one second short.
wait_if_needed_short(reqs, t, oversleep) ==
    LET kept == SelectSeq(reqs, LAMBDA req_time : t - req_time < time_window)
        sleep_time == IF Len(kept) >= rate_limit
                      THEN kept[1] + time_window - t - 1 ELSE 0
        slept == IF sleep_time > 0 THEN sleep_time + oversleep ELSE 0
    IN  [requests |-> Append(kept, t), recorded |-> t,
         slept |-> slept, now |-> t + slept]

\* _wait_if_needed at time t with the list reqs; oversleep is the extra time a
\* sleep takes. Yields the new list, the time recorded for the request, the
\* time slept and the time on return.
wait_if_needed(reqs, t, oversleep) ==
    LET kept == SelectSeq(reqs, LAMBDA req_time : t - req_time < time_window)
        sleep_time == IF Len(kept) >= rate_limit
                      THEN kept[1] + time_window - t ELSE 0
        slept == IF sleep_time > 0 THEN sleep_time + oversleep ELSE 0
    IN  [requests |-> Append(kept, t), recorded |-> t,
         slept |-> slept, now |-> t + slept]

\* What get_paper_details hands to its caller for an outcome of the request:
\* the paper's abstract ("" for a paper without one), None, or an exception.
LookupResult(outcome) ==
    CASE outcome = "found"  -> [kind |-> "paper", abstract |-> "s2 abstract"]
      [] outcome = "empty"  -> [kind |-> "paper", abstract |-> ""]
      [] outcome = "other"  -> [kind |-> "none", abstract |-> ""]
      [] outcome \in {"429", "403"} -> [kind |-> "Exception", abstract |-> ""]
      [] outcome = "neterr" -> [kind |-> "RequestException", abstract |-> ""]

\* get_paper_details: wait for the rate limit, then issue the request (the
\* request leaves at the time _wait_if_needed returns).
get_paper_details(reqs, t, oversleep, outcome) ==
    LET w == wait_if_needed(reqs, t, oversleep)
    IN  [requests |-> w.requests,
         now      |-> w.now,
         call     |-> [recorded |-> w.recorded, slept |-> w.slept, sent |-> w.now],
         result   |-> LookupResult(outcome)]

(* ------------------------------------------------------------------ *)
(* CrossrefJournalFetcher                                              *)
(* ------------------------------------------------------------------ *)

ISSNs == {"1111-1111", "2222-2222"}

\* The value of a key that is absent from a JSON object.
Absent == "<absent>"

\* Crossref items, by the two fields the pipeline reads later ('DOI' and
\* 'abstract'; a missing key reads as '').
Works == { [DOI |-> "10.1/a", abstract |-> ""],
           [DOI |-> "",       abstract |-> ""],
           [DOI |-> "10.1/b", abstract |-> "crossref abstract"] }

SeqsUpTo(S, n) == UNION { [1..k -> S] : k \in 0..n }

\* Cursors are opaque tokens; the request for the first page carries '*'.
StartCursor == [tok |-> "*", page |-> 1]
NoCursor    == [tok |-> Absent, page |-> 0]
CursorTo(k) == [tok |-> "cursor", page |-> k]

\* A response of GET /journals/<issn>/works.
PageResponse(items, next) == [kind |-> "page", items |-> items, next |-> next]
ErrorResponse     == [kind |-> "error", items |-> <<>>, next |-> NoCursor]
MalformedResponse == [kind |-> "malformed", items |-> <<>>, next |-> NoCursor]

Min(a, b) == IF a <= b THEN a ELSE b

\* The catalogue of a journal, and its pages when served rows items at a time.
Catalogs == SeqsUpTo(Works, MaxWorks)
NumPages(catalog, rows) == (Len(catalog) + rows - 1) \div rows
PageItems(catalog, rows, k) ==
    SubSeq(catalog, (k - 1) * rows + 1, Min(k * rows, Len(catalog)))

\* A source is the sequence of responses a server gives, the k-th to the
\* request for page k. Each non-empty page names the next page in its
\* next-cursor. The pagination ends in one of four ways:
\*   "empty":     the page after the last one is empty (Crossref's behaviour);
\*   "nocursor":  the last page carries no next-cursor;
\*   "error":     request p raises a RequestException (connection error, or
\*                an HTTP error status through raise_for_status);
\*   "malformed": response p is JSON without 'message' / 'items' (KeyError).
SourceOf(catalog, rows, mode, p) ==
    LET n == NumPages(catalog, rows)
        len == CASE mode = "empty" -> n + 1
                 [] mode = "nocursor" -> Max(n, 1)
                 [] OTHER -> p
    IN  [k \in 1..len |->
            IF mode \in {"error", "malformed"} /\ k = p
            THEN (IF mode = "error" THEN ErrorResponse ELSE MalformedResponse)
            ELSE IF k > n THEN PageResponse(<<>>, IF mode = "empty"
                                                  THEN CursorTo(k + 1) ELSE NoCursor)
            ELSE PageResponse(PageItems(catalog, rows, k),
                              IF mode = "nocursor" /\ k = n
                              THEN NoCursor ELSE CursorTo(k + 1))]

Sources ==
    UNION { UNION { { SourceOf(catalog, rows, "empty", 0),
                      SourceOf(catalog, rows, "nocursor", 0) }
                    \cup { SourceOf(catalog, rows, mode, p) :
                             mode \in {"error", "malformed"},
                             p \in 1..(NumPages(catalog, rows) + 1) }
                    : rows \in 1..MaxRows }
            : catalog \in Catalogs }

\* The server's answer to a request carrying a cursor.
Serve(source, cursor) == source[cursor.page]

\* get_journal_works: the generator run to its end. log is the cursor of every
\* request made, items the works yielded; raised tells that an exception other
\* than RequestException left the generator.
RECURSIVE get_journal_works(_, _, _, _)

\* get_journal_works with the test of next-cursor moved before the yields.
get_journal_works_cursor_first(source, cursor, log, items) ==
    LET data == Serve(source, cursor)
        log2 == Append(log, cursor)
    IN  IF data.kind = "error"
        THEN [log |-> log2, items |-> items, error |-> TRUE, raised |-> FALSE]
        ELSE IF data.kind = "malformed"
        THEN [log |-> log2, items |-> items, error |-> FALSE, raised |-> TRUE]
        ELSE IF data.items = <<>> \/ data.next = NoCursor
        THEN [log |-> log2, items |-> items, error |-> FALSE, raised |-> FALSE]
        ELSE get_journal_works(source, data.next, log2, items \o data.items)

get_journal_works(source, cursor, log, items) ==
    LET data == Serve(source, cursor)
        log2 == Append(log, cursor)
    IN  IF data.kind = "error"
        THEN [log |-> log2, items |-> items, error |-> TRUE, raised |-> FALSE]
        ELSE IF data.kind = "malformed"
        THEN [log |-> log2, items |-> items, error |-> FALSE, raised |-> TRUE]
        ELSE IF data.items = <<>>
        THEN [log |-> log2, items |-> items, error |-> FALSE, raised |-> FALSE]
        ELSE IF data.next = NoCursor
        THEN [log |-> log2, items |-> items \o data.items,
              error |-> FALSE, raised |-> FALSE]
        ELSE get_journal_works(source, data.next, log2, items \o data.items)

\* transform_work, with the id uuid4 returns. Of the metadata only 'doi' and
\* 'abstract_available' are kept: the other fields are copied and never read.
transform_work(work, id) ==
    [id |-> id, abstract |-> work.abstract, doi |-> work.DOI,
     abstract_available |-> Absent]

\* open(filename, 'w') + json.dump: the file holds exactly content afterwards.
WriteFile(d, issn, content) ==
    [f \in (DOMAIN d) \cup {issn} |-> IF f = issn THEN content ELSE d[f]]

\* save_to_file that leaves the file alone when a page request failed.
save_to_file_keep_on_error(d, issn, fetched, firstId) ==
    IF fetched.raised \/ fetched.error THEN d
    ELSE WriteFile(d, issn,
             [k \in 1..Len(fetched.items) |->
                 transform_work(fetched.items[k], firstId + k)])

\* save_to_file that keeps, for an item whose DOI the journal's file already
\* holds, the record of the file (its id, abstract and mark).
save_to_file_keep_known(d, issn, fetched, firstId) ==
    IF fetched.raised THEN d
    ELSE WriteFile(d, issn,
             [k \in 1..Len(fetched.items) |->
                 LET known == IF issn \in DOMAIN d
                              THEN { j \in 1..Len(d[issn]) :
                                       /\ d[issn][j].doi # ""
                                       /\ d[issn][j].doi = fetched.items[k].DOI }
                              ELSE {}
                 IN  IF known # {}
                     THEN d[issn][CHOOSE j \in known : \A i \in known : j <= i]
                     ELSE transform_work(fetched.items[k], firstId + k)])

\* save_to_file: the disk after the call. The generator ends on a
\* RequestException like on the last page, so the file is written all the
\* same; any other exception leaves save_to_file before the write.
save_to_file(d, issn, fetched, firstId) ==
    IF fetched.raised THEN d
    ELSE WriteFile(d, issn,
             [k \in 1..Len(fetched.items) |->
                 transform_work(fetched.items[k], firstId + k)])

NoFetch == [issn |-> Absent, source |-> <<>>, log |-> <<>>, items |-> <<>>,
            error |-> FALSE, raised |-> FALSE, before |-> <<>>, existed |-> FALSE,
            old_ids |-> {}]

(* ------------------------------------------------------------------ *)
(* enrich_with_abstracts                                               *)
(* ------------------------------------------------------------------ *)

InitStats == [total_files |-> 0, total_papers |-> 0, papers_with_abstracts |-> 0,
              new_abstracts_added |-> 0, errors |-> 0]

NoResult   == [error |-> Absent, message |-> Absent, stats |-> InitStats]
NoResponse == [status |-> 0, error |-> Absent, message |-> Absent,
               stats |-> InitStats]

\* paper.get("abstract") is truthy.
HasAbstract(paper) == paper.abstract # ""

\* The first loop over the papers of a file: papers that have an abstract are
\* marked 'yes' (in memory).
MarkExisting(ps) ==
    [k \in 1..Len(ps) |->
        IF HasAbstract(ps[k]) THEN [ps[k] EXCEPT !.abstract_available = "yes"]
        ELSE ps[k]]

NumWithAbstract(ps) == Cardinality({k \in 1..Len(ps) : HasAbstract(ps[k])})

\* NeedsLookup without the test of the 'not available' mark.
NeedsLookup_ignoring_mark(paper) == ~HasAbstract(paper)

\* NeedsLookup without the test of the abstract.
NeedsLookup_ignoring_abstract(paper) ==
    paper.abstract_available # "not available"

\* The condition of the list comprehension that builds papers_to_process.
NeedsLookup(paper) ==
    ~HasAbstract(paper) /\ paper.abstract_available # "not available"

\* papers_to_process, as the positions of its papers in the file, in order.
papers_to_process(ps) ==
    SelectSeq([k \in 1..Len(ps) |-> k], LAMBDA k : NeedsLookup(ps[k]))

\* What the loop body does to a paper when get_paper_details returned.
enrich_paper(paper, res) ==
    IF res.kind = "paper" /\ res.abstract # ""
    THEN [paper EXCEPT !.abstract = res.abstract, !.abstract_available = "yes"]
    ELSE [paper EXCEPT !.abstract_available = "not available"]

\* save_progress that writes only after the last paper of the work list.
save_progress_deferred(d, issn, ps, last) ==
    IF last THEN WriteFile(d, issn, ps) ELSE d

\* "Save after each paper is processed": the disk after the write (last tells
\* whether the paper is the last of the work list; the code does not ask).
save_progress(d, issn, ps, last) == WriteFile(d, issn, ps)

\* api_error_return that reports fresh statistics.
api_error_return_fresh_stats(st) ==
    [error |-> "API Error", message |-> Absent, stats |-> InitStats]

\* The return value of the handler of RequestException.
api_error_return(st) ==
    [error |-> "API Error", message |-> Absent, stats |-> st]

completed_return(st) ==
    [error |-> Absent, message |-> "Abstract enrichment completed", stats |-> st]

\* POST /enrich_abstracts: the response built from enrich_with_abstracts' result.
enrich_abstracts(res) ==
    [status |-> 200, error |-> Absent,
     message |-> IF res.message # Absent THEN res.message
                 ELSE "Data enrichment complete",
     stats |-> res.stats]

\* The ids of the records marked 'not available' in the files of d.
NotAvailableIds(d) ==
    UNION { { d[f][k].id : k \in { j \in 1..Len(d[f]) :
                                     d[f][j].abstract_available = "not available" } }
            : f \in DOMAIN d }

\* <<ISSN, DOI>> of the records marked 'not available' in the file of issn.
NotAvailableDois(issn, ps) ==
    { <<issn, ps[k].doi>> :
        k \in { j \in 1..Len(ps) : ps[j].abstract_available = "not available" } }

IdsOf(d) == UNION { { d[f][k].id : k \in 1..Len(d[f]) } : f \in DOMAIN d }

\* Every record has an abstract or is marked 'not available'.
FullyEnriched(ps) ==
    \A k \in 1..Len(ps) :
        HasAbstract(ps[k]) \/ ps[k].abstract_available = "not available"

ListOrders(S) ==
    { s \in [1..Cardinality(S) -> S] : \A a, b \in DOMAIN s : s[a] = s[b] => a = b }

(* ------------------------------------------------------------------ *)
(* ChromaGenerator                                                     *)
(* ------------------------------------------------------------------ *)

\* paper.get("id", "") of a record without id: falsy.
NoId == 0

\* The collection 'academic_papers' of ./chroma_db: whether it exists, and its
\* entries, id |-> what was added under it.
NoCollection == [exists |-> FALSE, entries |-> <<>>]

\* What process_papers adds for a paper: the document text (the title, then
\* the abstract when there is one; the records of the model have no title)
\* and the metadata.
Entry(paper) ==
    [document |-> IF HasAbstract(paper) THEN <<"", paper.abstract>> ELSE <<"">>,
     abstract |-> paper.abstract,
     doi |-> paper.doi]

\* collection.add of one document: an id the collection already holds keeps
\* its entry (the library refuses or ignores the second one).
add(entries, id, entry) ==
    IF id \in DOMAIN entries THEN entries
    ELSE [i \in DOMAIN entries \cup {id} |-> IF i = id THEN entry ELSE entries[i]]

\* ChromaGenerator.__init__ that takes the collection as it finds it.
ChromaGenerator_reusing(coll) == [exists |-> TRUE, entries |-> coll.entries]

\* ChromaGenerator.__init__: the collection is deleted if there is one, and
\* created anew.
ChromaGenerator(coll) == [exists |-> TRUE, entries |-> <<>>]

RECURSIVE load_json_files(_, _)
\* load_json_files: the records of the files, in the order of os.listdir.
load_json_files(d, order) ==
    IF order = <<>> THEN <<>>
    ELSE d[Head(order)] \o load_json_files(d, Tail(order))

\* create_journal_summary: ISSN |-> the number of articles of its file.
create_journal_summary(d) == [f \in DOMAIN d |-> [article_count |-> Len(d[f])]]

RECURSIVE process_papers(_, _, _)
\* process_papers: each paper in turn; a paper without id is skipped, and so
\* is one for which building the metadata or collection.add raises (the ids
\* in failing).
process_papers(entries, papers, failing) ==
    IF papers = <<>> THEN entries
    ELSE LET paper == Head(papers)
         IN  IF paper.id = NoId
             THEN process_papers(entries, Tail(papers), failing)
             ELSE IF paper.id \in failing
             THEN process_papers(entries, Tail(papers), failing)
             ELSE process_papers(add(entries, paper.id, Entry(paper)),
                                 Tail(papers), failing)

\* generate, after create_journal_summary: the collection afterwards.
generate(coll, d, order, failing) ==
    LET papers == load_json_files(d, order)
    IN  IF papers = <<>> THEN coll
        ELSE [coll EXCEPT !.entries = process_papers(coll.entries, papers, failing)]

NoIndexed == [ran |-> FALSE, papers |-> <<>>, failing |-> {}, before |-> {}]

\* The works the records of an indexed directory come from.
IndexWorks == { work \in Works : work.DOI # "" }

\* A batch of n records as transform_work builds them, each under an id of
\* its own, except that the records at the positions in missing have no id.
BatchOf(works, missing) ==
    [k \in 1..Len(works) |->
        transform_work(works[k], IF k \in missing THEN NoId ELSE k)]

\* The data directories the indexer is run on: a batch of up to MaxBatch
\* records, its first records in the file of one journal and the others, if
\* any, in the file of another.
IndexDirs ==
    UNION { UNION { { IF cut = Len(works)
                      THEN [f \in {"1111-1111"} |-> BatchOf(works, missing)]
                      ELSE [f \in ISSNs |->
                              IF f = "1111-1111"
                              THEN SubSeq(BatchOf(works, missing), 1, cut)
                              ELSE SubSeq(BatchOf(works, missing), cut + 1, Len(works))]
                      : cut \in 0..Len(works) }
                    : missing \in SUBSET (1..Len(works)) }
            : works \in SeqsUpTo(IndexWorks, MaxBatch) }

\* A collection left by an earlier run over other data.
StaleCollection ==
    [exists |-> TRUE,
     entries |-> [i \in {1} |-> [document |-> <<"", "stale">>, abstract |-> "stale",
                                 doi |-> "10.1/z"]]]

VARIABLES
    pc,           \* where enrich_with_abstracts stands: "idle" when no run is on
    json_files,   \* the files of the run, in the order os.listdir gave
    fileIdx,      \* position of the loop over json_files
    papers,       \* the loaded (and mutated) records of the current file
    to_process,   \* papers_to_process, as positions in papers
    pos,          \* position of the loop over papers_to_process
    stats,        \* the statistics of the run
    result,       \* what the enrich_with_abstracts call that just returned gave
    lookups,      \* history: the lookups of the run, in order
    disk0,        \* history: the disk when the run started
    marked_na,    \* history: ids seen marked 'not available' on disk
    first_left,   \* history: ISSN |-> what the first run over the fully enriched
                  \* file left on disk, and the number of such runs (up to 2)
    dropped_na,   \* history: <<ISSN, DOI>> of the records whose 'not available'
                  \* mark a fetch has overwritten since the last run returned
    collection,   \* ./chroma_db: the collection 'academic_papers'
    journal_summary,  \* ./chroma_db/journal_summary.json, <<>> when there is none
    indexed       \* history: the last run of the indexer: the papers it loaded,
                  \* the ids whose insertion failed, the ids held before

runVars == <<pc, json_files, fileIdx, papers, to_process, pos, stats>>
histVars == <<result, lookups, disk0, marked_na, first_left, dropped_na>>
indexVars == <<collection, journal_summary, indexed>>

\* POST /fetch with a non-empty issn, served by the given source.
fetch_journal(issn, source) ==
    LET fetched == get_journal_works(source, StartCursor, <<>>, <<>>)
        d2 == save_to_file(disk, issn, fetched, nextId)
    IN  /\ pc = "idle"
        /\ nextId + Len(fetched.items) <= MaxIds
        /\ disk' = d2
        /\ nextId' = nextId + Len(fetched.items)
        /\ lastFetch' = [issn |-> issn, source |-> source, log |-> fetched.log,
                         items |-> fetched.items, error |-> fetched.error,
                         raised |-> fetched.raised,
                         existed |-> issn \in DOMAIN disk,
                         before |-> IF fetched.error /\ issn \in DOMAIN disk
                                    THEN disk[issn] ELSE <<>>,
                         old_ids |-> IF issn \in DOMAIN disk
                                     THEN { disk[issn][k].id : k \in 1..Len(disk[issn]) }
                                     ELSE {}]
        /\ response' = IF fetched.raised
                       THEN [status |-> 500, error |-> "KeyError",
                             message |-> Absent, stats |-> InitStats]
                       ELSE IF issn \in DOMAIN d2
                       THEN [status |-> 200, error |-> Absent,
                             message |-> "Data saved", stats |-> InitStats]
                       ELSE [status |-> 500, error |-> "Failed to create file",
                             message |-> Absent, stats |-> InitStats]
        /\ result' = NoResult
        /\ lookups' = <<>>
        /\ disk0' = <<>>
        /\ marked_na' = marked_na \cap IdsOf(d2)
        /\ first_left' = IF fetched.raised THEN first_left
                         ELSE [f \in DOMAIN first_left \ {issn} |-> first_left[f]]
        /\ dropped_na' = IF fetched.raised \/ issn \notin DOMAIN disk
                          THEN dropped_na
                          ELSE dropped_na \cup NotAvailableDois(issn, disk[issn])
        /\ UNCHANGED <<now, requests, calls, runVars, indexVars>>

\* enrich_with_abstracts is entered: a new client, fresh statistics, and the
\* *.json files of fetcheddata/ in the order os.listdir returns them.
EnrichStart ==
    /\ pc = "idle"
    /\ \E order \in ListOrders(DOMAIN disk) : json_files' = order
    /\ fileIdx' = 1
    /\ stats' = [InitStats EXCEPT !.total_files = Cardinality(DOMAIN disk)]
    /\ pc' = "file_loop"
    /\ now' = 0
    /\ requests' = <<>>
    /\ calls' = <<>>
    /\ papers' = <<>>
    /\ to_process' = <<>>
    /\ pos' = 0
    /\ result' = NoResult
    /\ lookups' = <<>>
    /\ disk0' = disk
    /\ lastFetch' = NoFetch
    /\ response' = NoResponse
    /\ UNCHANGED <<disk, nextId, marked_na, first_left, dropped_na, indexVars>>

\* The next file is loaded and classified; with nothing to look up it is
\* written back at once.
OpenFile ==
    /\ pc = "file_loop"
    /\ fileIdx <= Len(json_files)
    /\ LET f == json_files[fileIdx]
           loaded == MarkExisting(disk[f])
           todo == papers_to_process(loaded)
       IN  /\ stats' = [stats EXCEPT
                          !.total_papers = @ + Len(loaded),
                          !.papers_with_abstracts = @ + NumWithAbstract(loaded)]
           /\ IF todo = <<>>
              THEN /\ disk' = WriteFile(disk, f, loaded)
                   /\ fileIdx' = fileIdx + 1
                   /\ UNCHANGED <<pc, papers, to_process, pos>>
                   /\ first_left' =
                        IF f \in DOMAIN first_left
                        THEN [first_left EXCEPT ![f].runs = 2]
                        ELSE [g \in DOMAIN first_left \cup {f} |->
                                IF g = f THEN [content |-> loaded, runs |-> 1]
                                ELSE first_left[g]]
              ELSE /\ papers' = loaded
                   /\ to_process' = todo
                   /\ pos' = 1
                   /\ pc' = "paper_loop"
                   /\ UNCHANGED <<disk, fileIdx, first_left>>
    /\ marked_na' = marked_na \cup NotAvailableIds(disk')
    /\ UNCHANGED <<now, requests, calls, nextId, lastFetch, response,
                   json_files, result, lookups, disk0, dropped_na, indexVars>>

\* The loop over papers_to_process moves on; after the last paper the loop
\* over the files does.
Advance ==
    IF pos < Len(to_process)
    THEN /\ pos' = pos + 1
         /\ UNCHANGED <<pc, fileIdx, to_process>>
    ELSE /\ pc' = "file_loop"
         /\ fileIdx' = fileIdx + 1
         /\ pos' = 0
         /\ to_process' = <<>>

\* A variant that treats the missing DOI as a failed lookup: the record is
\* marked 'not available' and the file is written.
SkipPaper_marking ==
    /\ pc = "paper_loop"
    /\ papers[to_process[pos]].doi = ""
    /\ LET k == to_process[pos]
           ps2 == [papers EXCEPT ![k].abstract_available = "not available"]
       IN  /\ disk' = WriteFile(disk, json_files[fileIdx], ps2)
           /\ papers' = IF pos < Len(to_process) THEN ps2 ELSE <<>>
    /\ Advance
    /\ marked_na' = marked_na \cup NotAvailableIds(disk')
    /\ UNCHANGED <<now, requests, calls, nextId, lastFetch, response, json_files,
                   stats, result, lookups, disk0, first_left, dropped_na,
                   indexVars>>

\* A paper of the work list without DOI: nothing happens to it.
SkipPaper ==
    /\ pc = "paper_loop"
    /\ papers[to_process[pos]].doi = ""
    /\ Advance
    /\ papers' = IF pos < Len(to_process) THEN papers ELSE <<>>
    /\ UNCHANGED <<now, requests, calls, fetchVars, response, json_files,
                   stats, histVars, indexVars>>

\* A paper of the work list with a DOI: the lookup and what follows from it.
LookupPaper ==
    /\ pc = "paper_loop"
    /\ papers[to_process[pos]].doi # ""
    /\ \E outcome \in Outcomes, oversleep \in 0..MaxOversleep :
         LET f == json_files[fileIdx]
             k == to_process[pos]
             r == get_paper_details(requests, now, oversleep, outcome)
             entry == [issn |-> f, idx |-> k, id |-> papers[k].id,
                       outcome |-> outcome,
                       was_na |-> papers[k].id \in marked_na]
             ps2 == [papers EXCEPT ![k] = enrich_paper(papers[k], r.result)]
         IN  /\ lookups' = Append(lookups, entry)
             /\ calls' = IF r.result.kind = "RequestException" THEN <<>>
                         ELSE Append(calls, r.call)
             /\ CASE r.result.kind \in {"paper", "none"} ->
                       /\ disk' = save_progress(disk, f, ps2, pos = Len(to_process))
                       /\ stats' = IF r.result.kind = "paper" /\ r.result.abstract # ""
                                   THEN [stats EXCEPT !.new_abstracts_added = @ + 1]
                                   ELSE stats
                       /\ Advance
                       /\ papers' = IF pos < Len(to_process) THEN ps2 ELSE <<>>
                       /\ requests' = r.requests
                       /\ now' = r.now
                       /\ UNCHANGED <<result, response, dropped_na>>
                  [] r.result.kind = "Exception" ->
                       \* caught by the handler of the file: the next file
                       /\ stats' = [stats EXCEPT !.errors = @ + 1]
                       /\ pc' = "file_loop"
                       /\ fileIdx' = fileIdx + 1
                       /\ pos' = 0
                       /\ to_process' = <<>>
                       /\ papers' = <<>>
                       /\ requests' = r.requests
                       /\ now' = r.now
                       /\ UNCHANGED <<disk, result, response, dropped_na>>
                  [] r.result.kind = "RequestException" ->
                       \* enrich_with_abstracts returns; the endpoint answers
                       /\ result' = api_error_return(stats)
                       /\ response' = enrich_abstracts(api_error_return(stats))
                       /\ pc' = "idle"
                       /\ pos' = 0
                       /\ to_process' = <<>>
                       /\ papers' = <<>>
                       /\ requests' = <<>>
                       /\ now' = 0
                       /\ stats' = InitStats
                       /\ dropped_na' = {}
                       /\ UNCHANGED <<disk, fileIdx>>
    /\ marked_na' = marked_na \cup NotAvailableIds(disk')
    /\ UNCHANGED <<nextId, lastFetch, json_files, disk0, first_left, indexVars>>

\* The loop over the files is over: enrich_with_abstracts returns and the
\* endpoint answers.
EnrichReturn ==
    /\ pc = "file_loop"
    /\ fileIdx > Len(json_files)
    /\ result' = completed_return(stats)
    /\ response' = enrich_abstracts(completed_return(stats))
    /\ pc' = "idle"
    /\ requests' = <<>>
    /\ calls' = <<>>
    /\ now' = 0
    /\ stats' = InitStats
    /\ dropped_na' = {}
    /\ json_files' = <<>>
    /\ fileIdx' = 0
    /\ UNCHANGED <<fetchVars, papers, to_process, pos,
                   lookups, disk0, marked_na, first_left, indexVars>>

\* POST /generate-chroma: a ChromaGenerator is constructed and generate()
\* is called on it.
generate_chroma ==
    /\ pc = "idle"
    /\ \E order \in ListOrders(DOMAIN disk), failing \in SUBSET (IdsOf(disk) \ {NoId}) :
         /\ collection' = generate(ChromaGenerator(collection), disk, order, failing)
         /\ indexed' = [ran |-> TRUE, papers |-> load_json_files(disk, order),
                        failing |-> failing, before |-> DOMAIN collection.entries]
    /\ journal_summary' = create_journal_summary(disk)
    /\ response' = [status |-> 200, error |-> Absent,
                    message |-> "ChromaDB collection generated successfully",
                    stats |-> InitStats]
    /\ UNCHANGED <<now, requests, calls, fetchVars, runVars, histVars>>

\* POST /purge_chroma: the collection is deleted and ./chroma_db removed.
\* Opening the client may or may not have left a directory to remove when
\* there was none.
purge_chroma ==
    /\ pc = "idle"
    /\ collection' = NoCollection
    /\ journal_summary' = <<>>
    /\ indexed' = NoIndexed
    /\ \E message \in {"ChromaDB collection and files purged successfully",
                        "No ChromaDB files found to purge"} :
         /\ collection.exists => message = "ChromaDB collection and files purged successfully"
         /\ response' = [status |-> 200, error |-> Absent, message |-> message,
                         stats |-> InitStats]
    /\ UNCHANGED <<now, requests, calls, fetchVars, runVars, histVars>>

(* ------------------------------------------------------------------ *)
(* Initial state and the specifications                                *)
(* ------------------------------------------------------------------ *)

Init ==
    /\ now = 0
    /\ requests = <<>>
    /\ calls = <<>>
    /\ disk = <<>>
    /\ nextId = 0
    /\ lastFetch = NoFetch
    /\ response = NoResponse
    /\ pc = "idle"
    /\ json_files = <<>>
    /\ fileIdx = 0
    /\ papers = <<>>
    /\ to_process = <<>>
    /\ pos = 0
    /\ stats = InitStats
    /\ result = NoResult
    /\ lookups = <<>>
    /\ disk0 = <<>>
    /\ marked_na = {}
    /\ dropped_na = {}
    /\ collection = NoCollection
    /\ journal_summary = <<>>
    /\ indexed = NoIndexed
    /\ first_left = <<>>

\* Time passes.
Tick ==
    /\ now < MaxTime
    /\ now' = now + 1
    /\ UNCHANGED <<requests, calls, fetchVars, response, runVars, histVars,
                   indexVars>>

\* get_paper_details called on a client of its own.
ClientCall ==
    /\ Len(calls) < MaxCalls
    /\ \E outcome \in Outcomes, oversleep \in 0..MaxOversleep :
         LET r == get_paper_details(requests, now, oversleep, outcome)
         IN  /\ requests' = r.requests
             /\ now' = r.now
             /\ calls' = Append(calls, r.call)
    /\ UNCHANGED <<fetchVars, response, runVars, histVars, indexVars>>

vars == <<now, requests, calls, disk, nextId, lastFetch, response,
          pc, json_files, fileIdx, papers, to_process, pos, stats,
          result, lookups, disk0, marked_na, first_left, dropped_na,
          collection, journal_summary, indexed>>

NextLimiter == Tick \/ ClientCall

\* The client on its own: any sequence of get_paper_details calls.
SpecLimiter == Init /\ [][NextLimiter]_vars

\* POST /fetch for one journal, against any source.
FetchAny == \E source \in Sources : fetch_journal("1111-1111", source)

NextFetch == FetchAny

\* The Fetcher on its own: one journal fetched again and again, each time
\* against any source.
SpecFetch == Init /\ [][NextFetch]_vars

\* The sources of the application's fetches: every catalogue, served to its
\* end in pages of MaxRows items.
CompleteSources == { SourceOf(catalog, MaxRows, "empty", 0) : catalog \in Catalogs }

\* POST /fetch for any journal.
FetchJournal ==
    \E issn \in ISSNs, source \in CompleteSources : fetch_journal(issn, source)

Next ==
    \/ FetchJournal
    \/ EnrichStart
    \/ OpenFile
    \/ SkipPaper
    \/ LookupPaper
    \/ EnrichReturn

\* The application: fetches and enrichment runs in any order. The lookups of
\* a run are issued back to back: in Spec the clock moves only by the sleeps
\* of the rate limiter. What a lookup returns does not depend on the clock and
\* a sleep always ends, so the files, the lookups and the responses reached
\* are those reached with time passing in between. The indexer only reads
\* the files; its endpoints are in SpecIndex.
Spec == Init /\ [][Next]_vars

\* The indexer on its own: a data directory as it may be found, and a
\* collection left by an earlier run or none.
InitIndex ==
    /\ now = 0
    /\ requests = <<>>
    /\ calls = <<>>
    /\ disk \in IndexDirs
    /\ nextId = 0
    /\ lastFetch = NoFetch
    /\ response = NoResponse
    /\ pc = "idle"
    /\ json_files = <<>>
    /\ fileIdx = 0
    /\ papers = <<>>
    /\ to_process = <<>>
    /\ pos = 0
    /\ stats = InitStats
    /\ result = NoResult
    /\ lookups = <<>>
    /\ disk0 = <<>>
    /\ marked_na = {}
    /\ first_left = <<>>
    /\ dropped_na = {}
    /\ collection \in {NoCollection, StaleCollection}
    /\ journal_summary = <<>>
    /\ indexed = NoIndexed

NextIndex == generate_chroma \/ purge_chroma

SpecIndex == InitIndex /\ [][NextIndex]_vars

(* ------------------------------------------------------------------ *)
(* Claims                                                              *)
(* ------------------------------------------------------------------ *)

(* ---- the rate limiter (SpecLimiter) ---- *)

\* The number of requests sent in the trailing window ending at time t.
SentInWindow(t) ==
    Cardinality({j \in 1..Len(calls) :
                   calls[j].sent <= t /\ calls[j].sent > t - time_window})

\* C1: within any trailing interval of length time_window, the number of
\* lookup requests sent (timed after the rate-limit sleep) never exceeds
\* rate_limit.
C1_WindowCap ==
    \A i \in 1..Len(calls) : SentInWindow(calls[i].sent) <= rate_limit

(* ---- the Enricher (Spec) ---- *)

\* C2: a record marked 'not available' is never passed to get_paper_details,
\* in the run that marked it and in every later run over the file, and its
\* status stays 'not available'.
C2_NotAvailableIsTerminal ==
    /\ \A n \in 1..Len(lookups) : ~lookups[n].was_na
    /\ \A f \in DOMAIN disk : \A k \in 1..Len(disk[f]) :
          disk[f][k].id \in marked_na
              => disk[f][k].abstract_available = "not available"

\* C2 witness: a later run looks up a record of a file in which an earlier
\* record was already marked 'not available' when the run started.
C2_Witness ==
    \E n \in 1..Len(lookups) :
        LET f == lookups[n].issn
        IN  \E k \in 1..Len(disk0[f]) :
               /\ k < lookups[n].idx
               /\ disk0[f][k].abstract_available = "not available"
               /\ disk0[f][k].doi # ""

(* ---- the Fetcher (SpecFetch) ---- *)

\* The items of the first k responses of a source, in page order.
RECURSIVE ItemsThrough(_, _)
ItemsThrough(source, k) ==
    IF k = 0 THEN <<>> ELSE ItemsThrough(source, k - 1) \o source[k].items

\* The file holds the transformed items, in order, each under an id of its own.
HoldsTransformed(file, items) ==
    /\ Len(file) = Len(items)
    /\ \A k \in 1..Len(file) :
          /\ file[k].doi = items[k].DOI
          /\ file[k].abstract = items[k].abstract
          /\ file[k].abstract_available = Absent
          /\ \A j \in 1..Len(file) : file[j].id = file[k].id => j = k

\* C3 as stated: when a page request raises a network/HTTP error,
\* save_to_file returns without writing and the file is as it was before.
C3_NothingWritten ==
    lastFetch.error =>
        IF lastFetch.existed
        THEN lastFetch.issn \in DOMAIN disk /\ disk[lastFetch.issn] = lastFetch.before
        ELSE lastFetch.issn \notin DOMAIN disk

\* C3 as amended: when a page request raises a network/HTTP error, no further
\* request is made and save_to_file overwrites the file with the transformed
\* items of the pages fetched before the error (an empty array when the first
\* request fails).
C3_PartialWritten ==
    lastFetch.error =>
        LET n == Len(lastFetch.source)
        IN  /\ lastFetch.source[n].kind = "error"
            /\ Len(lastFetch.log) = n
            /\ lastFetch.issn \in DOMAIN disk
            /\ HoldsTransformed(disk[lastFetch.issn],
                                ItemsThrough(lastFetch.source, n - 1))

\* C3 witness: the error came after a non-empty page, over an existing
\* non-empty file.
C3_Witness ==
    /\ lastFetch.error
    /\ Len(lastFetch.items) >= 1
    /\ lastFetch.existed
    /\ lastFetch.before # <<>>

\* N non-empty pages, each with a next-cursor, followed by an empty page.
FullPagesThenEmpty(source) ==
    /\ Len(source) >= 1
    /\ source[Len(source)].kind = "page"
    /\ source[Len(source)].items = <<>>
    /\ \A k \in 1..(Len(source) - 1) :
          /\ source[k].kind = "page"
          /\ source[k].items # <<>>
          /\ source[k].next # NoCursor

\* The first k-1 pages are non-empty with a next-cursor and page k is a
\* non-empty page that omits it.
FirstWithoutCursor(source, k) ==
    /\ k \in 1..Len(source)
    /\ source[k].kind = "page" /\ source[k].items # <<>> /\ source[k].next = NoCursor
    /\ \A j \in 1..(k - 1) :
          source[j].kind = "page" /\ source[j].items # <<>>
              /\ source[j].next # NoCursor

\* C4: against N non-empty pages followed by an empty page the Fetcher makes
\* exactly N+1 requests, the first with '*' and each later one with the cursor
\* of the page before, and emits the items of the N pages, once each, in page
\* order; and at the first page without next-cursor it stops after emitting
\* that page's items, with no further request.
C4_Pagination ==
    lastFetch.issn # Absent =>
        LET source == lastFetch.source
            log == lastFetch.log
        IN  /\ FullPagesThenEmpty(source) =>
                  /\ Len(log) = Len(source)
                  /\ log[1] = StartCursor
                  /\ \A k \in 2..Len(log) : log[k] = source[k - 1].next
                  /\ lastFetch.items = ItemsThrough(source, Len(source) - 1)
                  /\ HoldsTransformed(disk[lastFetch.issn], lastFetch.items)
            /\ \A k \in 1..Len(source) :
                  FirstWithoutCursor(source, k) =>
                      /\ Len(log) = k
                      /\ log[1] = StartCursor
                      /\ \A j \in 2..k : log[j] = source[j - 1].next
                      /\ lastFetch.items = ItemsThrough(source, k)

\* C4 witness: two non-empty pages and then the empty page were fetched.
C4_Witness ==
    /\ lastFetch.issn # Absent
    /\ FullPagesThenEmpty(lastFetch.source)
    /\ Len(lastFetch.source) = 3
    /\ Len(lastFetch.items) = 2

(* ---- the Enricher, continued (Spec) ---- *)

\* The lookups of the run for file f after which the record was processed.
EntriesOf(f) ==
    SelectSeq(lookups, LAMBDA e : e.issn = f /\ e.outcome \in {"found", "empty", "other"})

\* The positions of the work-list records of a file that have a DOI.
WorkListWithDoi(ps) ==
    SelectSeq([k \in 1..Len(ps) |-> k],
              LAMBDA k : /\ ps[k].abstract = ""
                         /\ ps[k].abstract_available # "not available"
                         /\ ps[k].doi # "")

WorkListEmpty(ps) ==
    \A k \in 1..Len(ps) :
        ps[k].abstract # "" \/ ps[k].abstract_available = "not available"

\* The enrichment result a processed record carries.
ResultOn(rec, outcome) ==
    IF outcome = "found"
    THEN [rec EXCEPT !.abstract = "s2 abstract", !.abstract_available = "yes"]
    ELSE [rec EXCEPT !.abstract_available = "not available"]

\* The file of the run's start in which the first records processed, as many
\* as the run has processed, carry their result, the records that had an
\* abstract are marked 'yes', and every other record is as it was.
Snapshot(f) ==
    LET base == disk0[f]
        es == EntriesOf(f)
        wl == WorkListWithDoi(base)
    IN  [k \in 1..Len(base) |->
            IF \E j \in 1..Len(es) : j <= Len(wl) /\ wl[j] = k
            THEN ResultOn(base[k],
                          es[CHOOSE j \in 1..Len(es) : j <= Len(wl) /\ wl[j] = k].outcome)
            ELSE IF base[k].abstract # ""
            THEN [base[k] EXCEPT !.abstract_available = "yes"]
            ELSE base[k]]

\* C5: after the write that follows the i-th processed record of a file and
\* before the next write, the file on disk is the full array in which exactly
\* the first i processed records carry their result and no later work-list
\* record has changed.
C5_SnapshotAfterEachRecord ==
    \A f \in DOMAIN disk0 :
        Len(EntriesOf(f)) >= 1 =>
            /\ f \in DOMAIN disk
            /\ Len(EntriesOf(f)) <= Len(WorkListWithDoi(disk0[f]))
            /\ disk[f] = Snapshot(f)

\* C5 witness: inside the loop, one record of the file processed and written,
\* another record with a DOI still to come.
C5_Witness ==
    /\ pc = "paper_loop"
    /\ \E f \in DOMAIN disk0 :
          /\ Len(EntriesOf(f)) >= 1
          /\ Len(WorkListWithDoi(disk0[f])) > Len(EntriesOf(f))

\* Over the first n files of the run, as they were at its start: the number
\* of records, and of records with an abstract.
RECURSIVE PapersIn(_, _)
PapersIn(fs, n) ==
    IF n = 0 THEN 0 ELSE PapersIn(fs, n - 1) + Len(disk0[fs[n]])

RECURSIVE WithAbstractIn(_, _)
WithAbstractIn(fs, n) ==
    IF n = 0 THEN 0 ELSE WithAbstractIn(fs, n - 1) + NumWithAbstract(disk0[fs[n]])

NumOutcomes(S) == Cardinality({n \in 1..Len(lookups) : lookups[n].outcome \in S})

\* The statistics accumulated when the run stands at file number fileIdx.
Accumulated ==
    [total_files |-> Len(json_files),
     total_papers |-> PapersIn(json_files, fileIdx),
     papers_with_abstracts |-> WithAbstractIn(json_files, fileIdx),
     new_abstracts_added |-> NumOutcomes({"found"}),
     errors |-> NumOutcomes({"429", "403"})]

\* What the run last saved of a file it has opened.
LastSaved(f) ==
    IF Len(EntriesOf(f)) >= 1 \/ WorkListEmpty(disk0[f]) THEN Snapshot(f) ELSE disk0[f]

\* C6: on a RequestException the Enricher returns at once with the statistics
\* accumulated so far: the failing lookup is the last one, the failing record
\* is not changed on disk and not marked 'not available', the files processed
\* earlier keep what was saved, the aborted file is as last saved (as at the
\* start of the run when nothing was saved), and later files are untouched.
C6_AbortOnRequestException ==
    result.error # Absent =>
        /\ Len(lookups) >= 1
        /\ LET e == lookups[Len(lookups)]
           IN  /\ e.outcome = "neterr"
               /\ \A n \in 1..(Len(lookups) - 1) : lookups[n].outcome # "neterr"
               /\ fileIdx \in 1..Len(json_files)
               /\ json_files[fileIdx] = e.issn
               /\ disk[e.issn][e.idx] = disk0[e.issn][e.idx]
               /\ disk[e.issn][e.idx].abstract_available # "not available"
        /\ result.stats = Accumulated
        /\ \A j \in 1..Len(json_files) :
              disk[json_files[j]] = IF j > fileIdx THEN disk0[json_files[j]]
                                    ELSE LastSaved(json_files[j])

\* C6 witness: the run aborted in its second file, after processing a record
\* of the first file and a record of the second.
C6_Witness ==
    /\ result.error # Absent
    /\ fileIdx = 2
    /\ Len(EntriesOf(json_files[1])) >= 1
    /\ Len(EntriesOf(json_files[2])) >= 1

\* C7 as stated: after a lookup rejected with 429 or 403 no further lookup
\* request is issued during the run.
C7_NoLookupAfterRejection ==
    \A n \in 1..(Len(lookups) - 1) : lookups[n].outcome \notin {"429", "403"}

\* C8 as stated: when the pass ends because of a secondary-API failure the
\* response carries the error and not a completion message, with the
\* statistics accumulated up to the failure.
C8_ResponseCarriesError ==
    result.error # Absent =>
        /\ response.error # Absent
        /\ response.message = Absent
        /\ response.stats = result.stats

\* C9: a run over a file in which every record has an abstract or is marked
\* 'not available' issues no lookup for it, and every run after the first
\* leaves the file as the first run left it.
C9_Idempotent ==
    /\ \A n \in 1..Len(lookups) : ~FullyEnriched(disk0[lookups[n].issn])
    /\ \A f \in DOMAIN first_left :
          f \in DOMAIN disk /\ disk[f] = first_left[f].content

\* C9 witness: a second run went over a fully enriched file that holds a
\* record with an abstract and a record marked 'not available'.
C9_Witness ==
    \E f \in DOMAIN first_left :
        /\ first_left[f].runs = 2
        /\ \E k \in 1..Len(disk[f]) : disk[f][k].abstract_available = "not available"
        /\ \E k \in 1..Len(disk[f]) : disk[f][k].abstract # ""

(* ---- C11: records without DOI (Spec) ---- *)

\* A record the Enricher would put in its work list, and that has no DOI.
NoDoiWork(paper) == NeedsLookup(paper) /\ paper.doi = ""

\* C11: a work-list record with no DOI is never looked up and is never
\* changed by the Enricher: no lookup of a run is for a record without DOI;
\* such a record is on disk, during and after the run, as it was when the run
\* started; on disk it never has an abstract or any abstract_available
\* field; and whenever a run has built the work list of a file, every such
\* record of the file is in it.
C11_NoDoiUntouched ==
    /\ \A n \in 1..Len(lookups) :
           disk0[lookups[n].issn][lookups[n].idx].doi # ""
    /\ \A f \in DOMAIN disk0 : \A k \in 1..Len(disk0[f]) :
           NoDoiWork(disk0[f][k]) =>
               /\ f \in DOMAIN disk
               /\ k <= Len(disk[f])
               /\ disk[f][k] = disk0[f][k]
    /\ \A f \in DOMAIN disk : \A k \in 1..Len(disk[f]) :
           (disk[f][k].doi = "" /\ disk[f][k].abstract # "crossref abstract") =>
               /\ disk[f][k].abstract = ""
               /\ disk[f][k].abstract_available = Absent
    /\ pc = "paper_loop" =>
           \A k \in 1..Len(papers) :
               NoDoiWork(papers[k]) => \E j \in 1..Len(to_process) : to_process[j] = k

\* A later run over a file meets the record without DOI again: another record
\* of the file was already marked 'not available' when the run started.
C11_Witness ==
    /\ pc = "paper_loop"
    /\ papers[to_process[pos]].doi = ""
    /\ \E k \in 1..Len(disk0[json_files[fileIdx]]) :
           disk0[json_files[fileIdx]][k].abstract_available = "not available"

(* ---- C12: the indexer rebuilds the collection (SpecIndex) ---- *)

\* The positions of the loaded papers that have an id and whose insertion
\* did not fail.
Inserted ==
    { k \in 1..Len(indexed.papers) :
        /\ indexed.papers[k].id # NoId
        /\ indexed.papers[k].id \notin indexed.failing }

\* The number of records in the files d.
RecordsIn(d) == Cardinality({ <<f, k>> \in (DOMAIN d) \X (1..MaxBatch) : k <= Len(d[f]) })

\* C12: after a run of the indexer the loaded papers are the records of all
\* the files, and the collection exists and holds one entry for each loaded
\* paper that has an id and whose insertion did not fail, under that id and
\* made from that paper, and no other entry, whatever it held before.
C12_FullRebuild ==
    indexed.ran =>
        /\ Len(indexed.papers) = RecordsIn(disk)
        /\ \A f \in DOMAIN disk : \A k \in 1..Len(disk[f]) :
              \E j \in 1..Len(indexed.papers) : indexed.papers[j] = disk[f][k]
        /\ collection.exists
        /\ DOMAIN collection.entries = { indexed.papers[k].id : k \in Inserted }
        /\ Cardinality(DOMAIN collection.entries) = Cardinality(Inserted)
        /\ \A k \in Inserted :
              collection.entries[indexed.papers[k].id] = Entry(indexed.papers[k])

\* A run over a directory in which a paper without id and a paper whose
\* insertion fails come before a paper that is inserted, with a collection
\* found that held an entry no paper of the run stands for.
C12_Witness ==
    /\ indexed.ran
    /\ \E i, j, k \in 1..Len(indexed.papers) :
          /\ i < k
          /\ j < k
          /\ indexed.papers[i].id = NoId
          /\ indexed.papers[j].id \in indexed.failing
          /\ k \in Inserted
    /\ indexed.before # {}
    /\ indexed.before \cap DOMAIN collection.entries = {}

(* ---- C13: the 'yes' marks on disk (Spec) ---- *)

\* C13: after a run that returned 'Abstract enrichment completed' and counted
\* no error, every record on disk with a non-empty abstract is marked 'yes'.
C13_YesMarksPersisted ==
    (/\ pc = "idle"
     /\ result.message = "Abstract enrichment completed"
     /\ result.stats.errors = 0)
    => \A f \in DOMAIN disk : \A k \in 1..Len(disk[f]) :
           HasAbstract(disk[f][k]) => disk[f][k].abstract_available = "yes"

(* ---- C14: fetching a journal again (Spec) ---- *)

\* The ids of the records of the files d other than issn's.
IdsElsewhere(d, issn) ==
    UNION { { d[f][k].id : k \in 1..Len(d[f]) } : f \in DOMAIN d \ {issn} }

\* The lookups of the run include one for record k of file f that was not
\* marked 'not available'.
LookedUp(f, k) ==
    \E n \in 1..Len(lookups) :
        /\ lookups[n].issn = f
        /\ lookups[n].idx = k
        /\ ~lookups[n].was_na

\* C14: after save_to_file has run again for a journal, its file holds the
\* freshly transformed records of the fetch and nothing else: no record has
\* an abstract_available field or an abstract other than the fetched one, and
\* every id is new (not an id of the replaced file, of another file, or of a
\* record once marked 'not available'), so every record without abstract is
\* back in the work list. And when the next run has gone through all files
\* without an error, it has looked up every record with a DOI and no abstract
\* whose 'not available' mark the fetch had overwritten.
C14_RefetchDiscards ==
    /\ (lastFetch.issn # Absent /\ ~lastFetch.raised) =>
          LET file == disk[lastFetch.issn]
          IN  /\ HoldsTransformed(file, lastFetch.items)
              /\ \A k \in 1..Len(file) :
                    /\ file[k].id \notin lastFetch.old_ids
                    /\ file[k].id \notin IdsElsewhere(disk, lastFetch.issn)
                    /\ file[k].id \notin marked_na
                    /\ file[k].abstract = "" => NeedsLookup(file[k])
    /\ (pc = "file_loop" /\ fileIdx > Len(json_files) /\ stats.errors = 0) =>
          \A f \in DOMAIN disk0 : \A k \in 1..Len(disk0[f]) :
              (/\ <<f, disk0[f][k].doi>> \in dropped_na
               /\ disk0[f][k].doi # ""
               /\ disk0[f][k].abstract = "")
              => LookedUp(f, k)

\* A run looks up, by its DOI, an article that an earlier run had marked
\* 'not available' and that the journal's file, fetched again, holds under a
\* new id.
C14_Witness ==
    /\ pc # "idle"
    /\ \E n \in 1..Len(lookups) :
          /\ <<lookups[n].issn, disk0[lookups[n].issn][lookups[n].idx].doi>>
                \in dropped_na
          /\ ~lookups[n].was_na

(* ---- the rate limiter, continued (SpecLimiter) ---- *)

\* C10: on a fresh limiter the first rate_limit requests are sent without any
\* rate-limit sleep, and request rate_limit+1 is not sent before the time
\* recorded for the first request plus time_window.
C10_DelayedUntilWindow ==
    /\ \A j \in 1..Len(calls) : j <= rate_limit => calls[j].slept = 0
    /\ Len(calls) >= rate_limit + 1 =>
           calls[rate_limit + 1].sent >= calls[1].recorded + time_window

\* C10 witness: request rate_limit+1 was issued inside the window of the first
\* and had to sleep.
C10_Witness ==
    /\ Len(calls) >= rate_limit + 1
    /\ calls[rate_limit + 1].slept > 0
    /\ calls[rate_limit + 1].recorded < calls[1].recorded + time_window
====
